---- MODULE Spec2Model ----
(***************************************************************************)
(* State-machine model of the web scraper for al.to.leg.br:                *)
(*   scraper.py               Scraper (base class) and the first           *)
(*                            LegislativeAssemblyScraper (input_data /     *)
(*                            output_data), called "legacy" below;         *)
(*   legislative_assembly.py  the LegislativeAssemblyScraper built on      *)
(*                            formData / queryResult, called "la" below.   *)
(* The remote site is the environment: every request either succeeds with  *)
(* the page the site serves for it, or fails.                              *)
(***************************************************************************)
EXTENDS Integers, Sequences, FiniteSets, TLC

VARIABLES
    impl,               \* which class was instantiated: "la" or "legacy"
    site,               \* the remote site the scraper's url points to
    response,           \* self.response
    soup,               \* self.soup
    is_scrap_done,      \* self.is_scrap_done
    is_scraping_done,   \* self.is_scraping_done (FALSE: attribute not set)
    data,               \* self.data
    pc,                 \* position of the running method ("idle": none)
    top,                \* the method the caller invoked
    frame,              \* local variables of the running method
    outcome,            \* how the last caller-invoked method ended
    got,                \* what a get_result call made in this state did
    posts,              \* requests issued by the method invoked last
    failures,           \* failed requests so far
    calls,              \* direct _query_indemnity_costs calls so far
    runs,               \* start_scraping calls so far
    directs,            \* direct fetch/parse/_extract_report_urls calls
    crawl,              \* the most recent start_scraping: how it stands,
                        \* and how many start_scraping calls have returned
    fetch_ok,           \* some fetch has returned without raising
    aggr                \* the last _extract_report_urls(year, month) call

vars == <<impl, site, response, soup, is_scrap_done, is_scraping_done, data,
          pc, top, frame, outcome, got, posts, failures, calls, runs, directs,
          crawl, fetch_ok, aggr>>

(***************************************************************************)
(* Bounds of the model.                                                    *)
(***************************************************************************)
MaxFailures == 1
MaxCalls == 2
MaxRuns == 2
MaxDirects == 3

(***************************************************************************)
(* Python values.                                                          *)
(***************************************************************************)
NoneValue == [type |-> "NoneType"]

PyInt(n) == [type |-> "int", n |-> n, s |-> ""]
PyStr(s) == [type |-> "str", n |-> 0, s |-> s]

Digit(d) ==
    CASE d = 0 -> "0" [] d = 1 -> "1" [] d = 2 -> "2" [] d = 3 -> "3"
      [] d = 4 -> "4" [] d = 5 -> "5" [] d = 6 -> "6" [] d = 7 -> "7"
      [] d = 8 -> "8" [] d = 9 -> "9"

RECURSIVE Decimal(_)
Decimal(n) == IF n < 10 THEN Digit(n) ELSE Decimal(n \div 10) \o Digit(n % 10)

\* str(v) for an int or a str
Str(v) == IF v.type = "int" THEN Decimal(v.n) ELSE v.s

\* x in seq
In(x, seq) == \E i \in 1..Len(seq) : seq[i] = x

\* seq[:n]
Take(seq, n) == SubSeq(seq, 1, IF Len(seq) < n THEN Len(seq) ELSE n)

\* [x for x in seq if x]   (strings: the empty string is falsy)
RECURSIVE Truthy(_)
Truthy(seq) ==
    IF seq = <<>> THEN <<>>
    ELSE IF Head(seq) = "" THEN Truthy(Tail(seq))
         ELSE <<Head(seq)>> \o Truthy(Tail(seq))

\* dict: a function from the keys present
EmptyDict == [k \in {} |-> {}]
DictGet(d, k, default) == IF k \in DOMAIN d THEN d[k] ELSE default
DictSet(d, k, v) == (k :> v) @@ d
\* Setdefault with the stored value dropped: d[k] = default
SetdefaultMutant(d, k, default) == DictSet(d, k, default)
\* d[k] = d.get(k, default)
Setdefault(d, k, default) == DictSet(d, k, DictGet(d, k, default))

\* s.strip() on a text held as a sequence of characters
RECURSIVE LStrip(_)
LStrip(s) == IF s # <<>> /\ Head(s) = " " THEN LStrip(Tail(s)) ELSE s
RECURSIVE RStrip(_)
RStrip(s) ==
    IF s # <<>> /\ s[Len(s)] = " " THEN RStrip(SubSeq(s, 1, Len(s) - 1)) ELSE s
Strip(s) == LStrip(RStrip(s))

(***************************************************************************)
(* The remote site.  A page is identified by the request that produced it  *)
(* (text); its markup is read through the selectors below.                 *)
(***************************************************************************)
Sites == {"full", "no2019"}

NoAttr == "<no attribute>"
NoString == <<"<", ">">>

SiteYears(s) ==
    IF s = "full" THEN <<"", "2019", "2020">> ELSE <<"2020">>

SiteMonths(s, ano) ==
    CASE ano = "" -> <<"", "1", "2">>
      [] s = "full" /\ ano = "2019" -> <<"", "1", "2">>
      [] s = "full" /\ ano = "2020" -> <<"2">>
      [] s = "no2019" /\ ano = "2020" -> <<"1">>
      [] OTHER -> <<>>

SitePoliticians(s, ano) ==
    CASE ano = "" -> <<"", "A", "B">>
      [] s = "full" /\ ano = "2019" -> <<"", "A", "B">>
      [] s = "full" /\ ano = "2020" -> <<"B">>
      [] s = "no2019" /\ ano = "2020" -> <<"A", "B">>
      [] OTHER -> <<>>

\* the rows (<td><a>) of one politician's table on a report page
SiteRows(ano, mes, p) ==
    <<[href |-> "/doc/" \o ano \o "/" \o mes \o "/" \o p,
       string |-> <<" ", "N", "F", " ">>]>>
    \o (IF mes = "1" THEN <<[href |-> "", string |-> <<"x">>]>> ELSE <<>>)
    \o (IF p = "B" /\ mes = "2"
        THEN <<[href |-> NoAttr, string |-> NoString]>> ELSE <<>>)

\* the <h2 class="my-2"> headings of a result page, each with its table
SiteSections(s, text) ==
    IF text.status # 200 \/ text.mes = "" THEN <<>>
    ELSE LET names == IF text.parlamentar = ""
                      THEN Truthy(SitePoliticians(s, text.ano))
                      ELSE <<text.parlamentar>>
         IN  [i \in 1..Len(names) |->
                 [h2 |-> names[i], table |-> TRUE,
                  rows |-> SiteRows(text.ano, text.mes, names[i])]]
             \o (IF text.parlamentar = ""
                 THEN <<[h2 |-> "", table |-> TRUE, rows |-> <<>>],
                        [h2 |-> "Mesa", table |-> FALSE, rows |-> <<>>]>>
                 ELSE <<>>)

\* soup.select('select#verbaindenizatoria_ano option') values
OptionsAno(s, text) == IF text.status = 200 THEN SiteYears(s) ELSE <<>>
\* soup.select('select#verbaindenizatoria_mes option') values
OptionsMes(s, text) ==
    IF text.status = 200 THEN SiteMonths(s, text.ano) ELSE <<>>
\* soup.select('select#transparencia_parlamentar option') values
OptionsParlamentar(s, text) ==
    IF text.status = 200 THEN SitePoliticians(s, text.ano) ELSE <<>>

RECURSIVE Flatten(_)
Flatten(ss) == IF ss = <<>> THEN <<>> ELSE Head(ss).rows \o Flatten(Tail(ss))

\* soup.select('td a')
SelectTdA(s, text) == Flatten(SiteSections(s, text))

\* the page served for a request
Request(method, ano, mes, parlamentar) ==
    [method |-> method, ano |-> ano, mes |-> mes, parlamentar |-> parlamentar]

Text(status, req) ==
    [status |-> status, ano |-> req.ano, mes |-> req.mes,
     parlamentar |-> req.parlamentar]

FetchOutcomes == {"ok", "http_error", "timeout"}

(***************************************************************************)
(* scraper.py: class Scraper.                                              *)
(***************************************************************************)
\* Scraper.has_valid_response
HasValidResponse(r) == r.type = "Response"
\* Scraper.has_valid_soup
HasValidSoup(b) == b.type = "BeautifulSoup"

\* Scraper.fetch: self.response when the call ends with outcome o.  A timeout
\* or network error is raised inside requests.get/post, before the assignment;
\* a non-2xx status is raised by raise_for_status, after it.
FetchResponse(o, req) ==
    CASE o = "ok" -> [type |-> "Response", text |-> Text(200, req)]
      [] o = "http_error" -> [type |-> "Response", text |-> Text(500, req)]
      [] OTHER -> response

\* Scraper.fetch raises (every requests error is re-raised as Exception)
FetchRaises(o) == o # "ok"

\* Scraper.validate_response raises
ValidateResponseRaises(r) == ~HasValidResponse(r)

\* Scraper.parse: the BeautifulSoup built from self.response.text
ParseSoup(r) == [type |-> "BeautifulSoup", text |-> r.text]

\* Scraper.start_scraping without its assignment
ScraperStartScrapingMutant == is_scrap_done
\* Scraper.start_scraping: the value it gives self.is_scrap_done
ScraperStartScraping == FALSE

\* Scraper.get_result raises 'Web scraping is not done yet'
GetResultRaises == ~is_scrap_done
\* Scraper.get_json and Scraper.save_as_json_file raise when get_result does
GetJsonRaises == GetResultRaises
SaveAsJsonFileRaises == GetJsonRaises

(***************************************************************************)
(* Bookkeeping shared by the actions.                                      *)
(***************************************************************************)
\* yi, mi, pi: the positions of the loops; years, months, politicians: the
\* arguments of _query_indemnity_costs after lines 161-165; args: as passed;
\* fresh: data had no queryResult when the call began
NoFrame ==
    [years |-> NoneValue, months |-> NoneValue, politicians |-> NoneValue,
     yi |-> 0, mi |-> 0, pi |-> 0,
     args |-> [years |-> NoneValue, months |-> NoneValue,
               politicians |-> NoneValue],
     fresh |-> FALSE]

\* aggr before any _extract_report_urls(year, month) call
NoAggr == [year |-> "", month |-> "", wanted |-> NoneValue, before |-> {}]

Outcome(op, status, error, at) ==
    [op |-> op, status |-> status, error |-> error, at |-> at]

TypeOK ==
    /\ impl \in {"la", "legacy"}
    /\ site \in Sites
    /\ is_scrap_done \in BOOLEAN
    /\ is_scraping_done \in BOOLEAN
    /\ failures \in 0..MaxFailures
    /\ calls \in 0..MaxCalls
    /\ runs \in 0..MaxRuns
    /\ directs \in 0..MaxDirects

Init ==
    /\ impl \in {"la", "legacy"}
    /\ site \in Sites
    /\ response = NoneValue
    /\ soup = NoneValue
    /\ is_scrap_done = FALSE
    /\ is_scraping_done = FALSE
    /\ data = EmptyDict
    /\ pc = "idle"
    /\ top = "none"
    /\ frame = NoFrame
    /\ outcome = Outcome("none", "none", "", "")
    /\ got = "none"
    /\ posts = <<>>
    /\ failures = 0
    /\ calls = 0
    /\ runs = 0
    /\ directs = 0
    /\ crawl = [status |-> "none", completed |-> 0]
    /\ fetch_ok = FALSE
    /\ aggr = NoAggr

\* a request may fail only while the model's failure budget lasts
MayEnd(o) == o \in FetchOutcomes /\ (o = "ok" \/ failures < MaxFailures)
Failed(o) == IF o = "ok" THEN failures ELSE failures + 1

\* the running method raises and the exception reaches the caller
Raise(error) ==
    /\ pc' = "idle"
    /\ outcome' = Outcome(top, "raised", error, pc)
    /\ frame' = NoFrame
    /\ crawl' = IF top = "start_scraping"
                THEN [crawl EXCEPT !.status = "raised"] ELSE crawl

\* the caller-invoked method returns
Return ==
    /\ pc' = "idle"
    /\ outcome' = Outcome(top, "returned", "", pc)
    /\ frame' = NoFrame
    /\ crawl' = IF top = "start_scraping"
                THEN [status |-> "returned", completed |-> crawl.completed + 1]
                ELSE crawl

(***************************************************************************)
(* Scraper.get_result, callable at any time.                               *)
(***************************************************************************)
GetResult ==
    /\ got' = IF GetResultRaises THEN "raised" ELSE "returned"
    /\ UNCHANGED <<impl, site, response, soup, is_scrap_done, is_scraping_done,
                   data, pc, top, frame, outcome, posts, failures, calls, runs,
                   directs, crawl>>
    /\ UNCHANGED <<aggr, fetch_ok>>

(***************************************************************************)
(* legislative_assembly.py: discovery of the form data.                    *)
(***************************************************************************)
\* an insertion-ordered dict (formData is iterated with .keys())
EmptyODict == [keys |-> <<>>, map |-> EmptyDict]
ODictSet(d, k, v) ==
    [keys |-> IF k \in DOMAIN d.map THEN d.keys ELSE Append(d.keys, k),
     map |-> DictSet(d.map, k, v)]

\* _extract_years, _extract_months, _extract_politicians
ExtractYears(b) == Truthy(OptionsAno(site, b.text))
ExtractMonths(b) == Truthy(OptionsMes(site, b.text))
ExtractPoliticians(b) == Truthy(OptionsParlamentar(site, b.text))

EmptyScope == [months |-> <<>>, politicians |-> <<>>, politicianCount |-> 0]

\* the formData dict _prepare_to_get_data_from_form builds from the years
RECURSIVE PreparedFormData(_)
PreparedFormData(years) ==
    IF years = <<>> THEN EmptyODict
    ELSE ODictSet(PreparedFormData(SubSeq(years, 1, Len(years) - 1)),
                  years[Len(years)], EmptyScope)

\* start_scraping of legislative_assembly.py begins
StartScraping ==
    /\ impl = "la"
    /\ pc = "idle"
    /\ runs < MaxRuns
    /\ runs' = runs + 1
    /\ is_scrap_done' = ScraperStartScraping
    /\ top' = "start_scraping"
    /\ pc' = "prepare"
    /\ outcome' = Outcome("start_scraping", "running", "", "")
    /\ crawl' = [crawl EXCEPT !.status = "running"]
    /\ UNCHANGED <<impl, site, response, soup, is_scraping_done, data, frame,
                   failures, calls, directs>>
    /\ got' = "none"
    /\ posts' = <<>>
    /\ UNCHANGED <<aggr, fetch_ok>>

\* the caller invokes _extract_form_data itself
CallExtractFormData ==
    /\ impl = "la"
    /\ pc = "idle"
    /\ top' = "_extract_form_data"
    /\ pc' = "prepare"
    /\ outcome' = Outcome("_extract_form_data", "running", "", "")
    /\ UNCHANGED <<impl, site, response, soup, is_scrap_done, is_scraping_done,
                   data, frame, failures, calls, runs, directs,
                   crawl>>
    /\ got' = "none"
    /\ posts' = <<>>
    /\ UNCHANGED <<aggr, fetch_ok>>

\* _prepare_to_get_data_from_form
PrepareToGetDataFromForm ==
    /\ pc = "prepare"
    /\ \E o \in FetchOutcomes :
        /\ MayEnd(o)
        /\ failures' = Failed(o)
        /\ fetch_ok' = (fetch_ok \/ ~FetchRaises(o))
        /\ response' = FetchResponse(o, Request("GET", "", "", ""))
        /\ IF FetchRaises(o)
           THEN /\ Raise("Exception")
                /\ UNCHANGED <<soup, data>>
           ELSE /\ soup' = ParseSoup(response')
                /\ data' = DictSet(EmptyDict, "formData",
                                   PreparedFormData(ExtractYears(soup')))
                /\ pc' = "form"
                /\ frame' = [NoFrame EXCEPT !.yi = 1]
                /\ UNCHANGED <<outcome, crawl>>
    /\ UNCHANGED <<impl, site, is_scrap_done, is_scraping_done, top, posts,
                   calls, runs, directs>>
    /\ got' = "none"
    /\ UNCHANGED aggr

\* one iteration of the loop of _extract_data_from_form
ExtractDataFromForm ==
    /\ pc = "form"
    /\ frame.yi <= Len(data["formData"].keys)
    /\ LET year == data["formData"].keys[frame.yi] IN
       \E o \in FetchOutcomes :
        /\ MayEnd(o)
        /\ failures' = Failed(o)
        /\ fetch_ok' = (fetch_ok \/ ~FetchRaises(o))
        /\ response' = FetchResponse(o, Request("POST", year, "", ""))
        /\ IF FetchRaises(o)
           THEN /\ Raise("Exception")
                /\ UNCHANGED <<soup, data>>
           ELSE /\ soup' = ParseSoup(response')
                /\ data' = DictSet(data, "formData",
                      ODictSet(data["formData"], year,
                          [months |-> ExtractMonths(soup'),
                           politicians |-> ExtractPoliticians(soup'),
                           politicianCount |-> Len(ExtractPoliticians(soup'))]))
                /\ frame' = [frame EXCEPT !.yi = @ + 1]
                /\ UNCHANGED <<pc, outcome, crawl>>
    /\ UNCHANGED <<impl, site, is_scrap_done, is_scraping_done, top, posts,
                   calls, runs, directs>>
    /\ got' = "none"
    /\ UNCHANGED aggr

(***************************************************************************)
(* legislative_assembly.py: extraction of the report links.                *)
(***************************************************************************)
\* a.get('href') is truthy
HrefTruthy(a) == a.href # NoAttr /\ a.href # ""

\* {'description': str(a.string).strip(), 'href': a.get('href', '')}
AnchorEntry(a) ==
    [description |-> Strip(IF a.string = NoString
                           THEN <<"N", "o", "n", "e">> ELSE a.string),
     href |-> a.href]

\* the entries appended for a list of anchors: those without href are skipped
RECURSIVE ReportEntries(_)
ReportEntries(rows) ==
    IF rows = <<>> THEN <<>>
    ELSE (IF HrefTruthy(Head(rows)) THEN <<AnchorEntry(Head(rows))>> ELSE <<>>)
         \o ReportEntries(Tail(rows))

\* queryResult[year][month][politician].append(...) for each entry
QRAppend(qr, year, month, politician, entries) ==
    DictSet(qr, year,
        DictSet(qr[year], month,
            DictSet(qr[year][month], politician,
                    qr[year][month][politician] \o entries)))

\* the h2 loop of _extract_report_urls on pm = queryResult[year][month]
RECURSIVE ExtractSections(_, _)
ExtractSections(pm, sections) ==
    IF sections = <<>> THEN pm
    ELSE LET s == Head(sections) IN
         IF s.h2 = "" THEN ExtractSections(pm, Tail(sections))
         ELSE LET created == Setdefault(pm, s.h2, <<>>)
                  filled == IF s.table
                            THEN DictSet(created, s.h2,
                                         created[s.h2] \o ReportEntries(s.rows))
                            ELSE created
              IN  ExtractSections(filled, Tail(sections))

\* the h2 headings _extract_report_urls does not skip
NamedSections(b) ==
    SelectSeq(SiteSections(site, b.text), LAMBDA s : s.h2 # "")

\* _extract_report_urls raises: no soup (AttributeError), or a key of
\* queryResult it indexes is missing (KeyError).  politician = "" stands for
\* a falsy politician argument (None, the default, or '').
ExtractReportUrlsRaises(qr, b, year, month, politician) ==
    \/ ~HasValidSoup(b)
    \/ /\ politician # ""
       /\ ReportEntries(SelectTdA(site, b.text)) # <<>>
       /\ \/ year \notin DOMAIN qr
          \/ month \notin DOMAIN qr[year]
          \/ politician \notin DOMAIN qr[year][month]
    \/ /\ politician = ""
       /\ NamedSections(b) # <<>>
       /\ \/ year \notin DOMAIN qr
          \/ month \notin DOMAIN qr[year]

\* _extract_report_urls: queryResult after the call
ExtractReportUrls(qr, b, year, month, politician) ==
    IF politician # ""
    THEN LET entries == ReportEntries(SelectTdA(site, b.text)) IN
         IF entries = <<>> THEN qr
         ELSE QRAppend(qr, year, month, politician, entries)
    ELSE IF NamedSections(b) = <<>> THEN qr
         ELSE DictSet(qr, year,
                  DictSet(qr[year], month,
                      ExtractSections(qr[year][month],
                                      SiteSections(site, b.text))))

(***************************************************************************)
(* legislative_assembly.py: _query_indemnity_costs.                        *)
(* An argument is None or a list; a non-list argument (TypeError) is not   *)
(* modelled.                                                               *)
(***************************************************************************)
PyList(items) == [type |-> "list", items |-> items]

\* [str(x) for x in arg] when arg is a list or tuple
Normalise(arg) ==
    IF arg.type = "list"
    THEN PyList([i \in 1..Len(arg.items) |-> Str(arg.items[i])])
    ELSE arg

\* IsValid without the length test
IsValidMutant(arg) == arg.type = "list"
\* isinstance(arg, (list, tuple)) and len(arg)
IsValid(arg) == arg.type = "list" /\ Len(arg.items) > 0

\* Skips with the "continue" lost
SkipsMutant(arg, value) == FALSE
\* the loop skips a value the (non-empty) filter does not contain
Skips(arg, value) == IsValid(arg) /\ ~In(value, arg.items)

\* lines 161-172, up to the first evaluation of self.data['formData']
EnterQuery(years, months, politicians) ==
    /\ data' = Setdefault(data, "queryResult", EmptyDict)
    /\ IF "formData" \in DOMAIN data
       THEN /\ pc' = "q_year"
            /\ frame' = [years |-> Normalise(years),
                         months |-> Normalise(months),
                         politicians |-> politicians,
                         yi |-> 1, mi |-> 0, pi |-> 0,
                         args |-> [years |-> years, months |-> months,
                                   politicians |-> politicians],
                         fresh |-> "queryResult" \notin DOMAIN data]
            /\ posts' = <<>>
       ELSE /\ pc' = "idle"
            /\ frame' = NoFrame
            /\ UNCHANGED posts

\* the arguments a caller passes: each of years, months and politicians is
\* None, empty or non-empty; ints and strs; values the site does not offer
Filter(years, months, politicians) ==
    [years |-> years, months |-> months, politicians |-> politicians]
Filters ==
    {Filter(NoneValue, NoneValue, NoneValue),
     Filter(PyList(<<>>), PyList(<<>>), PyList(<<>>)),
     Filter(PyList(<<PyInt(2019)>>), PyList(<<PyInt(1)>>), NoneValue),
     Filter(PyList(<<PyStr("2020")>>), NoneValue, PyList(<<"A">>)),
     Filter(PyList(<<PyInt(2019), PyInt(2021)>>), PyList(<<PyStr("3")>>),
            PyList(<<"B", "C">>)),
     Filter(PyList(<<PyInt(2021)>>), NoneValue, NoneValue),
     Filter(NoneValue, PyList(<<PyInt(2)>>), PyList(<<"B", "C">>))}

\* the caller invokes _query_indemnity_costs itself
CallQueryIndemnityCosts ==
    /\ impl = "la"
    /\ pc = "idle"
    /\ calls < MaxCalls
    /\ calls' = calls + 1
    /\ top' = "_query_indemnity_costs"
    /\ \E f \in Filters : EnterQuery(f.years, f.months, f.politicians)
    /\ outcome' = IF "formData" \in DOMAIN data
                  THEN Outcome("_query_indemnity_costs", "running", "", "")
                  ELSE Outcome("_query_indemnity_costs", "raised", "KeyError",
                               "q_enter")
    /\ UNCHANGED <<impl, site, response, soup, is_scrap_done, is_scraping_done,
                   failures, runs, directs, crawl>>
    /\ got' = "none"
    /\ UNCHANGED <<aggr, fetch_ok>>

\* the argument politicians[:5] of the call in start_scraping
PoliticianSlice == 5

\* _extract_data_from_form returns: _extract_form_data ends, and
\* start_scraping evaluates the arguments of its _query_indemnity_costs call
ExtractFormDataReturns ==
    /\ pc = "form"
    /\ frame.yi > Len(data["formData"].keys)
    /\ IF top = "_extract_form_data"
       THEN /\ Return
            /\ UNCHANGED <<data, posts>>
       ELSE IF "2019" \notin DOMAIN data["formData"].map
       THEN /\ Raise("KeyError")
            /\ UNCHANGED <<data, posts>>
       ELSE /\ EnterQuery(
                   PyList(<<PyInt(2019)>>), PyList(<<PyInt(2)>>),
                   PyList(Take(data["formData"].map["2019"].politicians,
                               PoliticianSlice)))
            /\ UNCHANGED <<outcome, crawl>>
    /\ UNCHANGED <<impl, site, response, soup, is_scrap_done, is_scraping_done,
                   top, failures, calls, runs, directs>>
    /\ got' = "none"
    /\ UNCHANGED <<aggr, fetch_ok>>

\* the "for year" loop header and the lines before the "for month" loop
QueryYear ==
    /\ pc = "q_year"
    /\ frame.yi <= Len(data["formData"].keys)
    /\ LET year == data["formData"].keys[frame.yi]
           qr == data["queryResult"]
       IN  IF Skips(frame.years, year)
           THEN /\ frame' = [frame EXCEPT !.yi = @ + 1]
                /\ UNCHANGED <<data, pc>>
           ELSE /\ data' = DictSet(data, "queryResult",
                               Setdefault(qr, year, EmptyDict))
                /\ frame' = [frame EXCEPT !.mi = 1]
                /\ pc' = "q_month"
    /\ UNCHANGED <<impl, site, response, soup, is_scrap_done, is_scraping_done,
                   top, outcome, posts, failures, calls, runs, directs,
                   crawl>>
    /\ got' = "none"
    /\ UNCHANGED <<aggr, fetch_ok>>

\* the "for month" loop header and the lines before the "for politician" loop
QueryMonth ==
    /\ pc = "q_month"
    /\ LET year == data["formData"].keys[frame.yi]
           months == data["formData"].map[year].months
           qr == data["queryResult"]
       IN  IF frame.mi > Len(months)
           THEN /\ frame' = [frame EXCEPT !.yi = @ + 1, !.mi = 0]
                /\ pc' = "q_year"
                /\ UNCHANGED data
           ELSE IF Skips(frame.months, months[frame.mi])
           THEN /\ frame' = [frame EXCEPT !.mi = @ + 1]
                /\ UNCHANGED <<data, pc>>
           ELSE /\ data' = DictSet(data, "queryResult",
                               DictSet(qr, year,
                                   Setdefault(qr[year], months[frame.mi],
                                              EmptyDict)))
                /\ frame' = [frame EXCEPT !.pi = 1]
                /\ pc' = "q_pol"
    /\ UNCHANGED <<impl, site, response, soup, is_scrap_done, is_scraping_done,
                   top, outcome, posts, failures, calls, runs, directs,
                   crawl>>
    /\ got' = "none"
    /\ UNCHANGED <<aggr, fetch_ok>>

\* QueryTryRaises without the except clause
QueryTryRaisesMutant(o) == FetchRaises(o)
\* try: fetch; parse  except: pass -- whether the failure leaves the try
QueryTryRaises(o) == FALSE

\* the entries a visit added to a list
Added(before, after) == SubSeq(after, Len(before) + 1, Len(after))

\* one iteration of the "for politician" loop
QueryPolitician ==
    /\ pc = "q_pol"
    /\ LET year == data["formData"].keys[frame.yi]
           month == data["formData"].map[year].months[frame.mi]
           politicians == data["formData"].map[year].politicians
           qr == data["queryResult"]
       IN  IF frame.pi > Len(politicians)
           THEN /\ frame' = [frame EXCEPT !.mi = @ + 1, !.pi = 0]
                /\ pc' = "q_month"
                /\ UNCHANGED <<data, response, soup, posts, failures, outcome,
                               crawl, fetch_ok>>
           ELSE IF Skips(frame.politicians, politicians[frame.pi])
           THEN /\ frame' = [frame EXCEPT !.pi = @ + 1]
                /\ UNCHANGED <<data, pc, response, soup, posts, failures,
                               outcome, crawl, fetch_ok>>
           ELSE \E o \in FetchOutcomes :
                LET politician == politicians[frame.pi]
                    created ==
                        DictSet(qr, year,
                            DictSet(qr[year], month,
                                Setdefault(qr[year][month], politician,
                                           <<>>)))
                    fetched == FetchResponse(o,
                                   Request("POST", year, month, politician))
                    parsed == IF FetchRaises(o) THEN soup ELSE ParseSoup(fetched)
                IN  /\ MayEnd(o)
                    /\ failures' = Failed(o)
                    /\ fetch_ok' = (fetch_ok \/ ~FetchRaises(o))
                    /\ response' = fetched
                    /\ soup' = parsed
                    /\ IF FetchRaises(o) /\ QueryTryRaises(o)
                       THEN /\ Raise("Exception")
                            /\ data' = DictSet(data, "queryResult", created)
                            /\ UNCHANGED posts
                       ELSE IF ExtractReportUrlsRaises(created, parsed, year,
                                                       month, politician)
                       THEN /\ Raise("AttributeError")
                            /\ data' = DictSet(data, "queryResult", created)
                            /\ UNCHANGED posts
                       ELSE LET after == ExtractReportUrls(created, parsed, year,
                                                           month, politician)
                            IN  /\ data' = DictSet(data, "queryResult", after)
                                /\ posts' = Append(posts,
                                     [year |-> year, month |-> month,
                                      politician |-> politician,
                                      ok |-> ~FetchRaises(o),
                                      existed |->
                                         politician \in DOMAIN qr[year][month],
                                      appended |->
                                         Added(created[year][month][politician],
                                               after[year][month][politician])])
                                /\ frame' = [frame EXCEPT !.pi = @ + 1]
                                /\ UNCHANGED <<pc, outcome, crawl>>
    /\ UNCHANGED <<impl, site, is_scrap_done, is_scraping_done, top, calls,
                   runs, directs>>
    /\ got' = "none"
    /\ UNCHANGED aggr

\* _query_indemnity_costs returns; start_scraping then sets its done flag
QueryReturns ==
    /\ pc = "q_year"
    /\ frame.yi > Len(data["formData"].keys)
    /\ Return
    /\ is_scraping_done' = IF top = "start_scraping" THEN TRUE
                           ELSE is_scraping_done
    /\ UNCHANGED <<impl, site, response, soup, is_scrap_done, data, top, posts, failures, calls, runs, directs>>
    /\ got' = "none"
    /\ UNCHANGED <<aggr, fetch_ok>>

(***************************************************************************)
(* scraper.py: class LegislativeAssemblyScraper ("legacy").                *)
(***************************************************************************)
\* _get_years, _get_months, _get_politicians
GetYears(b) == Truthy(OptionsAno(site, b.text))
GetMonths(b) == Truthy(OptionsMes(site, b.text))
GetPoliticians(b) == Truthy(OptionsParlamentar(site, b.text))

\* _get_politician_reports raises KeyError: anchor['href'] of an anchor
\* that has no href attribute
GetPoliticianReportsRaises(b) ==
    \E i \in 1..Len(SelectTdA(site, b.text)) :
        SelectTdA(site, b.text)[i].href = NoAttr

\* _get_politician_reports
GetPoliticianReports(b) ==
    Truthy([i \in 1..Len(SelectTdA(site, b.text)) |->
               SelectTdA(site, b.text)[i].href])

\* the (year, month, politician) combinations in the order of the three
\* nested loops of start_scraping
Combinations(input) ==
    LET ny == Len(input.years)
        nm == Len(input.months)
        np == Len(input.politicians)
    IN  [k \in 1..(ny * nm * np) |->
            [year |-> input.years[((k - 1) \div (nm * np)) + 1],
             month |-> input.months[(((k - 1) \div np) % nm) + 1],
             politician |-> input.politicians[((k - 1) % np) + 1]]]

\* start_scraping of scraper.py begins
LegacyStartScraping ==
    /\ impl = "legacy"
    /\ pc = "idle"
    /\ runs < MaxRuns
    /\ runs' = runs + 1
    /\ is_scrap_done' = ScraperStartScraping
    /\ top' = "start_scraping"
    /\ pc' = "input"
    /\ outcome' = Outcome("start_scraping", "running", "", "")
    /\ crawl' = [crawl EXCEPT !.status = "running"]
    /\ posts' = <<>>
    /\ got' = "none"
    /\ UNCHANGED <<impl, site, response, soup, is_scraping_done, data, frame,
                   failures, calls, directs, aggr>>
    /\ UNCHANGED fetch_ok

\* _extract_input_data
LegacyExtractInputData ==
    /\ pc = "input"
    /\ \E o \in FetchOutcomes :
        /\ MayEnd(o)
        /\ failures' = Failed(o)
        /\ fetch_ok' = (fetch_ok \/ ~FetchRaises(o))
        /\ response' = FetchResponse(o, Request("GET", "", "", ""))
        /\ IF FetchRaises(o)
           THEN /\ Raise("Exception")
                /\ UNCHANGED <<soup, data>>
           ELSE /\ soup' = ParseSoup(response')
                /\ data' = DictSet(EmptyDict, "input_data",
                               [years |-> GetYears(soup'),
                                months |-> GetMonths(soup'),
                                politicians |-> GetPoliticians(soup')])
                /\ pc' = "loop"
                /\ frame' = [NoFrame EXCEPT !.yi = 1]
                /\ UNCHANGED <<outcome, crawl>>
    /\ got' = "none"
    /\ UNCHANGED <<impl, site, is_scrap_done, is_scraping_done, top, posts,
                   calls, runs, directs, aggr>>

\* try: _extract_politician_data  except Exception -- whether an exception
\* leaves the try
LegacyTryRaises(o) == FALSE

\* lines 215-217 of _extract_politician_data: the keys it creates
LegacyCreated(d, year, month) ==
    LET od == DictGet(d, "output_data", EmptyDict)
        yd == DictGet(od, year, EmptyDict)
    IN  DictSet(d, "output_data",
            DictSet(od, year, Setdefault(yd, month, <<>>)))

\* one iteration of the innermost loop of start_scraping
LegacyVisit ==
    /\ pc = "loop"
    /\ frame.yi <= Len(Combinations(data["input_data"]))
    /\ LET c == Combinations(data["input_data"])[frame.yi] IN
       \E o \in FetchOutcomes :
       LET fetched == FetchResponse(o,
                          Request("POST", c.year, c.month, c.politician))
           created == LegacyCreated(data, c.year, c.month)
           entry == [politician |-> c.politician,
                     reports |-> GetPoliticianReports(ParseSoup(fetched))]
           visit(ok, appended) ==
               [year |-> c.year, month |-> c.month, politician |-> c.politician,
                ok |-> ok, existed |-> FALSE, appended |-> appended]
       IN  /\ MayEnd(o)
           /\ failures' = Failed(o)
           /\ fetch_ok' = (fetch_ok \/ ~FetchRaises(o))
           /\ response' = fetched
           /\ IF FetchRaises(o) /\ LegacyTryRaises(o)
              THEN /\ Raise("Exception")
                   /\ UNCHANGED <<soup, data, posts>>
              ELSE /\ IF FetchRaises(o)
                      THEN /\ UNCHANGED <<soup, data>>
                           /\ posts' = Append(posts, visit(FALSE, <<>>))
                      ELSE /\ soup' = ParseSoup(fetched)
                           /\ IF GetPoliticianReportsRaises(soup')
                              THEN /\ data' = created
                                   /\ posts' = Append(posts, visit(TRUE, <<>>))
                              ELSE /\ data' = DictSet(created, "output_data",
                                        DictSet(created["output_data"], c.year,
                                          DictSet(created["output_data"][c.year],
                                            c.month,
                                            Append(created["output_data"][c.year]
                                                       [c.month], entry))))
                                   /\ posts' = Append(posts,
                                                      visit(TRUE, <<entry>>))
                   /\ frame' = [frame EXCEPT !.yi = @ + 1]
                   /\ UNCHANGED <<pc, outcome, crawl>>
    /\ got' = "none"
    /\ UNCHANGED <<impl, site, is_scrap_done, is_scraping_done, top, calls,
                   runs, directs, aggr>>

\* the loops end: self.is_scrap_done = True
LegacyFinish ==
    /\ pc = "loop"
    /\ frame.yi > Len(Combinations(data["input_data"]))
    /\ is_scrap_done' = TRUE
    /\ Return
    /\ got' = "none"
    /\ UNCHANGED <<impl, site, response, soup, is_scraping_done, data, top,
                   posts, failures, calls, runs, directs, aggr>>
    /\ UNCHANGED fetch_ok

(***************************************************************************)
(* Methods the caller invokes one by one on an idle scraper.               *)
(***************************************************************************)
\* the requests of a direct fetch: the landing page, and the result page of
\* 2019/1 for all politicians (an empty transparencia.parlamentar)
DirectRequests ==
    {Request("GET", "", "", ""), Request("POST", "2019", "1", "")}

\* Scraper.fetch
CallFetch ==
    /\ pc = "idle"
    /\ directs < MaxDirects
    /\ directs' = directs + 1
    /\ \E req \in DirectRequests, o \in FetchOutcomes :
        /\ MayEnd(o)
        /\ failures' = Failed(o)
        /\ fetch_ok' = (fetch_ok \/ ~FetchRaises(o))
        /\ response' = FetchResponse(o, req)
        /\ outcome' = IF FetchRaises(o)
                      THEN Outcome("fetch", "raised", "Exception", "fetch")
                      ELSE Outcome("fetch", "returned", "", "fetch")
    /\ top' = "fetch"
    /\ got' = "none"
    /\ UNCHANGED <<impl, site, soup, is_scrap_done, is_scraping_done, data, pc,
                   frame, posts, calls, runs, crawl, aggr>>

\* Scraper.parse
CallParse ==
    /\ pc = "idle"
    /\ directs < MaxDirects
    /\ directs' = directs + 1
    /\ IF ValidateResponseRaises(response)
       THEN /\ outcome' = Outcome("parse", "raised", "Exception", "parse")
            /\ UNCHANGED soup
       ELSE /\ outcome' = Outcome("parse", "returned", "", "parse")
            /\ soup' = ParseSoup(response)
    /\ top' = "parse"
    /\ got' = "none"
    /\ UNCHANGED <<impl, site, response, is_scrap_done, is_scraping_done, data,
                   pc, frame, posts, failures, calls, runs, crawl, aggr>>
    /\ UNCHANGED fetch_ok

\* _extract_report_urls(year, month) on the page parsed last: the path that
\* reads every politician of the page.  wanted is the politicians filter the
\* caller crawls with; the method has no parameter for it.
CallExtractReportUrls ==
    /\ impl = "la"
    /\ pc = "idle"
    /\ directs < MaxDirects
    /\ directs' = directs + 1
    /\ "queryResult" \in DOMAIN data
    /\ \E year \in {"2019"}, month \in {"1"}, f \in Filters :
        IF ExtractReportUrlsRaises(data["queryResult"], soup, year, month, "")
        THEN /\ outcome' = Outcome("_extract_report_urls", "raised", "KeyError",
                                   "extract")
             /\ UNCHANGED <<data, aggr>>
        ELSE /\ outcome' = Outcome("_extract_report_urls", "returned", "",
                                   "extract")
             /\ data' = DictSet(data, "queryResult",
                            ExtractReportUrls(data["queryResult"], soup, year,
                                              month, ""))
             /\ aggr' = [year |-> year, month |-> month,
                         wanted |-> f.politicians,
                         before |->
                            IF /\ year \in DOMAIN data["queryResult"]
                               /\ month \in DOMAIN data["queryResult"][year]
                            THEN DOMAIN data["queryResult"][year][month]
                            ELSE {}]
    /\ top' = "_extract_report_urls"
    /\ got' = "none"
    /\ UNCHANGED <<impl, site, response, soup, is_scrap_done, is_scraping_done,
                   pc, frame, posts, failures, calls, runs, crawl>>
    /\ UNCHANGED fetch_ok

(***************************************************************************)
(* Specifications.                                                         *)
(***************************************************************************)
\* the crawl methods of the two scrapers, run whole or one by one
Next ==
    \/ StartScraping
    \/ CallExtractFormData
    \/ PrepareToGetDataFromForm
    \/ ExtractDataFromForm
    \/ ExtractFormDataReturns
    \/ CallQueryIndemnityCosts
    \/ QueryYear
    \/ QueryMonth
    \/ QueryPolitician
    \/ QueryReturns
    \/ LegacyStartScraping
    \/ LegacyExtractInputData
    \/ LegacyVisit
    \/ LegacyFinish

Spec == Init /\ [][Next]_vars

\* the public methods: start_scraping, and get_result at any moment
NextApi ==
    \/ GetResult
    \/ StartScraping
    \/ PrepareToGetDataFromForm
    \/ ExtractDataFromForm
    \/ ExtractFormDataReturns
    \/ QueryYear
    \/ QueryMonth
    \/ QueryPolitician
    \/ QueryReturns
    \/ LegacyStartScraping
    \/ LegacyExtractInputData
    \/ LegacyVisit
    \/ LegacyFinish

SpecApi == Init /\ [][NextApi]_vars

\* a caller that drives fetch, parse and _extract_report_urls by hand once
\* its crawl calls are made
NextDirect ==
    \/ CallExtractFormData
    \/ PrepareToGetDataFromForm
    \/ ExtractDataFromForm
    \/ ExtractFormDataReturns
    \/ CallQueryIndemnityCosts
    \/ QueryYear
    \/ QueryMonth
    \/ QueryPolitician
    \/ QueryReturns
    \/ CallFetch
    \/ CallParse
    \/ CallExtractReportUrls

SpecDirect == Init /\ [][NextDirect]_vars

(***************************************************************************)
(* What the claims speak of.                                               *)
(***************************************************************************)
InQuery == pc \in {"q_year", "q_month", "q_pol"}
\* every loop of _query_indemnity_costs has ended
QueryLoopsEnded == pc = "q_year" /\ frame.yi > Len(data["formData"].keys)
\* every loop of scraper.py's start_scraping has ended
LegacyLoopsEnded ==
    pc = "loop" /\ frame.yi > Len(Combinations(data["input_data"]))

\* an argument of years or months admits a discovered value
Admits(arg, value) ==
    \/ arg.type = "NoneType"
    \/ arg.items = <<>>
    \/ \E i \in 1..Len(arg.items) : Str(arg.items[i]) = value
\* the politicians argument admits a discovered name
AdmitsName(arg, name) ==
    \/ arg.type = "NoneType"
    \/ arg.items = <<>>
    \/ \E i \in 1..Len(arg.items) : arg.items[i] = name

Range(seq) == {seq[i] : i \in 1..Len(seq)}

EffectiveYears ==
    {y \in DOMAIN data["formData"].map : Admits(frame.args.years, y)}
EffectiveMonths(y) ==
    {m \in Range(data["formData"].map[y].months) : Admits(frame.args.months, m)}
EffectivePoliticians(y) ==
    {p \in Range(data["formData"].map[y].politicians) :
        AdmitsName(frame.args.politicians, p)}
EffectiveTriples ==
    UNION {{<<y, m, p>> : m \in EffectiveMonths(y), p \in EffectivePoliticians(y)} :
           y \in EffectiveYears}

Triple(v) == <<v.year, v.month, v.politician>>

\* what the page of a combination holds, read off the site
OwnPage(v) == Text(200, Request("POST", v.year, v.month, v.politician))
OwnEntries(v) ==
    LET rows == SiteRows(v.year, v.month, v.politician)
        kept == SelectSeq(rows, LAMBDA a : a.href # NoAttr /\ a.href # "")
    IN  [i \in 1..Len(kept) |->
            [description |-> Strip(IF kept[i].string = NoString
                                   THEN <<"N", "o", "n", "e">>
                                   ELSE kept[i].string),
             href |-> kept[i].href]]
OwnLegacyEntries(v) ==
    LET rows == SiteRows(v.year, v.month, v.politician)
        kept == SelectSeq(rows, LAMBDA a : a.href # "")
    IN  IF \E i \in 1..Len(rows) : rows[i].href = NoAttr THEN <<>>
        ELSE <<[politician |-> v.politician,
                reports |-> [i \in 1..Len(kept) |-> kept[i].href]]>>

IsPrefix(a, b) == Len(a) <= Len(b) /\ SubSeq(b, 1, Len(a)) = a

(***************************************************************************)
(* C1: failure isolation in the crawl loops.  No exception leaves the      *)
(* loop of _query_indemnity_costs or of scraper.py's start_scraping;       *)
(* whatever failed before, each visit whose request succeeds records       *)
(* exactly the entries of its own page; and when the loops end every       *)
(* combination has been requested.                                         *)
(***************************************************************************)
C1_FailureIsolation ==
    /\ ~(outcome.status = "raised"
         /\ outcome.at \in {"q_year", "q_month", "q_pol", "loop"})
    /\ \A i \in 1..Len(posts) :
          posts[i].ok =>
              posts[i].appended = IF impl = "la" THEN OwnEntries(posts[i])
                                  ELSE OwnLegacyEntries(posts[i])
    /\ QueryLoopsEnded =>
          \A t \in EffectiveTriples : \E i \in 1..Len(posts) : Triple(posts[i]) = t
    /\ LegacyLoopsEnded =>
          [i \in 1..Len(posts) |->
              [year |-> posts[i].year, month |-> posts[i].month,
               politician |-> posts[i].politician]]
          = Combinations(data["input_data"])

\* a request failed, and a later one of the same call recorded its reports
C1_Witness ==
    /\ impl = "la"
    /\ QueryLoopsEnded
    /\ \E i, j \in 1..Len(posts) :
          i < j /\ ~posts[i].ok /\ posts[j].ok /\ posts[j].appended # <<>>

(***************************************************************************)
(* C2: a visit of _query_indemnity_costs whose request fails appends no    *)
(* report entry, so a key it created maps to the empty list.               *)
(***************************************************************************)
C2_FailedVisitIsEmpty ==
    impl = "la" =>
        \A i \in 1..Len(posts) :
            (~posts[i].ok /\ ~posts[i].existed) => posts[i].appended = <<>>

(***************************************************************************)
(* C3: once start_scraping of legislative_assembly.py has returned,        *)
(* get_result returns the data and get_json / save_as_json_file do not     *)
(* raise.                                                                  *)
(***************************************************************************)
C3_ResultExposed ==
    (impl = "la" /\ crawl.status = "returned") =>
        (~GetResultRaises /\ ~GetJsonRaises /\ ~SaveAsJsonFileRaises)

(***************************************************************************)
(* C4: after one _query_indemnity_costs call on freshly discovered data    *)
(* the year keys of queryResult are exactly the effective years: all       *)
(* discovered years for a None or empty years argument, else the           *)
(* discovered years whose string occurs among str() of the argument's      *)
(* items; while the call runs no other year is a key.                      *)
(***************************************************************************)
C4_YearKeys ==
    (InQuery /\ frame.fresh) =>
        /\ DOMAIN data["queryResult"] \subseteq EffectiveYears
        /\ QueryLoopsEnded => DOMAIN data["queryResult"] = EffectiveYears

\* years=[2019, 2021], months=['3']: 2019 is a key with no month under it,
\* 2020 and the undiscovered 2021 are not keys
C4_Witness ==
    /\ QueryLoopsEnded
    /\ frame.fresh
    /\ frame.args.years = PyList(<<PyInt(2019), PyInt(2021)>>)
    /\ Len(data["formData"].keys) = 2
    /\ DOMAIN data["queryResult"] = {"2019"}
    /\ DOMAIN data["queryResult"]["2019"] = {}

(***************************************************************************)
(* C5: one _query_indemnity_costs call issues exactly one POST for each    *)
(* (year, month, politician) of the effective years, months and            *)
(* politicians, failed or not, and none for any other triple.              *)
(***************************************************************************)
C5_OnePostPerCombination ==
    InQuery =>
        /\ \A i \in 1..Len(posts) : Triple(posts[i]) \in EffectiveTriples
        /\ \A i, j \in 1..Len(posts) :
              Triple(posts[i]) = Triple(posts[j]) => i = j
        /\ QueryLoopsEnded => Len(posts) = Cardinality(EffectiveTriples)

\* years=[2019], months=[1] on 2019 = months 1,2 and politicians A,B: two
\* requests, one of them failed
C5_Witness ==
    /\ QueryLoopsEnded
    /\ frame.args.years = PyList(<<PyInt(2019)>>)
    /\ frame.args.months = PyList(<<PyInt(1)>>)
    /\ "2019" \in DOMAIN data["formData"].map
    /\ data["formData"].map["2019"].months = <<"1", "2">>
    /\ data["formData"].map["2019"].politicians = <<"A", "B">>
    /\ [i \in 1..Len(posts) |-> Triple(posts[i])]
           = <<(<<"2019", "1", "A">>), (<<"2019", "1", "B">>)>>
    /\ \E i \in 1..Len(posts) : ~posts[i].ok

(***************************************************************************)
(* C6: a failed POST of _extract_data_from_form does not raise out of      *)
(* the discovery.                                                          *)
(***************************************************************************)
C6_ScopeDiscoveryNonFatal ==
    ~(outcome.status = "raised" /\ outcome.at = "form"
      /\ outcome.error = "Exception")

(***************************************************************************)
(* C7: while the discovered data is kept, every step leaves each year,     *)
(* month and politician key of queryResult in place, and the list at a     *)
(* politician key before the step is a prefix of the list after it.        *)
(***************************************************************************)
C7_Step ==
    ("queryResult" \in DOMAIN data /\ "queryResult" \in DOMAIN data') =>
        LET old == data["queryResult"]
            new == data'["queryResult"]
        IN  \A y \in DOMAIN old :
              /\ y \in DOMAIN new
              /\ \A m \in DOMAIN old[y] :
                    /\ m \in DOMAIN new[y]
                    /\ \A p \in DOMAIN old[y][m] :
                          /\ p \in DOMAIN new[y][m]
                          /\ IsPrefix(old[y][m][p], new[y][m][p])

C7_AppendsNeverReplaces == [][C7_Step]_vars

\* a later call visited a key again and appended behind what was stored
C7_Witness ==
    /\ impl = "la"
    /\ InQuery
    /\ \E i \in 1..Len(posts) :
          /\ posts[i].existed
          /\ posts[i].appended # <<>>
          /\ Len(data["queryResult"][posts[i].year][posts[i].month]
                     [posts[i].politician]) > Len(posts[i].appended)

(***************************************************************************)
(* C8: get_result, get_json and save_as_json_file raise unless the most    *)
(* recent start_scraping has run to completion: before the first crawl,    *)
(* during a crawl (also a second one), and after a crawl that raised.      *)
(***************************************************************************)
C8_NoResultBeforeCompletion ==
    /\ crawl.status # "returned" =>
          (GetResultRaises /\ GetJsonRaises /\ SaveAsJsonFileRaises)
    /\ got = "returned" => crawl.status = "returned"

\* get_result raised during a second crawl, the first having completed
C8_Witness ==
    /\ crawl.status = "running"
    /\ crawl.completed = 1
    /\ pc = "loop"
    /\ posts # <<>>
    /\ got = "raised"

(***************************************************************************)
(* C9: parse raises, and leaves soup as it was, as long as no fetch has    *)
(* returned without raising.                                               *)
(***************************************************************************)
C9_ParseNeedsSuccessfulFetch ==
    (outcome.op = "parse" /\ ~fetch_ok) =>
        (outcome.status = "raised" /\ ~HasValidSoup(soup))

(***************************************************************************)
(* C10: _extract_report_urls(year, month) on a page of all politicians,    *)
(* for a caller whose politicians filter is non-empty, makes only names    *)
(* of the filter keys of queryResult[year][month].                         *)
(***************************************************************************)
C10_AggregatePostFilter ==
    (/\ outcome.op = "_extract_report_urls"
     /\ outcome.status = "returned"
     /\ soup.text.parlamentar = ""
     /\ aggr.year \in DOMAIN data["queryResult"]
     /\ aggr.month \in DOMAIN data["queryResult"][aggr.year]
     /\ IsValid(aggr.wanted)) =>
        \A name \in DOMAIN data["queryResult"][aggr.year][aggr.month]
                    \ aggr.before :
            In(name, aggr.wanted.items)

====
